---- MODULE Spec2Model ----
(***************************************************************************)
(* Windows Search Index plugins of dissect.target:                         *)
(*   plugins/os/windows/searchindex.py  (_get_sqlite_records, differencer)  *)
(*   plugins/os/windows/search.py       (search, parse_sqlite, build_record)*)
(* Python dicts are functions over a finite set of keys, lists are         *)
(* sequences, and every Python value is a tagged record so that values of   *)
(* different Python types can be compared.                                  *)
(***************************************************************************)
EXTENDS Integers, Sequences, FiniteSets, TLC

VARIABLES
    pc,                  \* position of the modelled call
    db,                  \* base SQLite file: page number -> page
    db_wal,              \* TRUE when a "-wal" file exists next to the database
    tables,              \* names of the tables that the base SQLite file holds
    gthr_records,        \* searchindex.py: DocumentID -> gather fields
    propstore_records,   \* WorkID -> version list (searchindex.py) or snapshot (search.py)
    checkpoints,         \* checkpoints replayed so far: <<[index, diff]>>
    rows,                \* searchindex.py: the list _get_sqlite_records returns
    different_values,    \* differencer: result of search.py's copy
    si_different_values, \* differencer: result of searchindex.py's copy
    frames,              \* differencer: frames of the checkpoint handed to it
    calls,               \* build_record: number of snapshots handed to it so far
    values,              \* build_record: the snapshot of the last call
    yielded,             \* build_record: the records the last call yielded
    records,             \* the records yielded so far
    warnings,            \* log.warning calls so far
    raised,              \* exception that left the modelled call, "" when none
    target,              \* search.py: the target's registry value and files
    SYSTEM_PATHS,        \* search.py: the class attribute SearchIndexPlugin.SYSTEM_PATHS
    databases,           \* search.py: self.databases of the plugin under construction
    set_order,           \* iteration order of Python sets in this interpreter process
    position,            \* search(): number of databases the loop has handled
    run,                 \* 1 or 2: the plugin is constructed and queried twice
    first_run,           \* what the first construction and query produced
    metadata_rows,       \* column catalog: rows of the metadata table, keys as their "-"-separated parts
    catalog,             \* column catalog: the dict "columns" of parse_sqlite
    ese_columns          \* column catalog: the dict "columns" of TableRecord

vars == <<pc, db, db_wal, tables, gthr_records, propstore_records, checkpoints, rows,
          different_values, si_different_values, frames, calls, values, yielded,
          records, warnings, raised, target, SYSTEM_PATHS, databases, set_order,
          position, run, first_run, metadata_rows, catalog, ese_columns>>

catalog_vars == <<metadata_rows, catalog, ese_columns>>

search_vars == <<target, SYSTEM_PATHS, databases, set_order, position, run, first_run>>

---------------------------------------------------------------------------
(* Bounds of the model *)

MaxWorkID == 2
MaxCells == 2
MaxCheckpoints == 2
MaxBatch == 2
MaxTicks == 300
MaxColumnID == 2
MaxMetadataRows == 2

---------------------------------------------------------------------------
(* Python values *)

None == [t |-> "none", s |-> <<>>, b |-> <<>>]
Str(x) == [t |-> "str", s |-> x, b |-> <<>>]
Bytes(x) == [t |-> "bytes", s |-> <<>>, b |-> x]
PyInt(n) == [t |-> "int", s |-> <<>>, b |-> <<n>>]
PyBool(x) == [t |-> "bool", s |-> <<>>, b |-> <<IF x THEN 1 ELSE 0>>]
Datetime(ticks) == [t |-> "datetime", s |-> <<>>, b |-> <<ticks>>]
ValueError == [t |-> "ValueError", s |-> <<>>, b |-> <<>>]
TypeError == [t |-> "TypeError", s |-> <<>>, b |-> <<>>]

EmptyDict == [k \in {} |-> None]
Get(d, k, default) == IF k \in DOMAIN d THEN d[k] ELSE default
Put(d, k, v) == [x \in (DOMAIN d) \cup {k} |-> IF x = k THEN v ELSE d[x]]
DictUnion(a, b) == [x \in (DOMAIN a) \cup (DOMAIN b) |-> IF x \in DOMAIN b THEN b[x] ELSE a[x]]

Range(seq) == {seq[i] : i \in 1..Len(seq)}

\* int.from_bytes(b, "little"); a value that is not a bytes object is a TypeError
RECURSIVE LittleEndian(_)
LittleEndian(b) == IF b = <<>> THEN 0 ELSE b[1] + 256 * LittleEndian(Tail(b))

int_from_bytes(value) == IF value.t = "bytes" THEN PyInt(LittleEndian(value.b)) ELSE TypeError

\* dissect.util.ts.wintimestamp: 100ns ticks since 1601-01-01 to a datetime;
\* it raises ValueError for a tick count outside the datetime range
wintimestamp(n) ==
    IF n.t # "int" THEN n
    ELSE IF n.b[1] > MaxTicks THEN ValueError ELSE Datetime(n.b[1])

---------------------------------------------------------------------------
(* SQLite pages, cells and the WAL differencer *)

\* a page is missing (db.page returns None), of the wrong type (InvalidPageType
\* is raised when it is read), or holds cells; a cell has a size or has none,
\* and reading the values of a cell without size raises NoCellData. The b-tree
\* page type decides whether cells carry a payload: the cells of a leaf page all
\* have a size, those of an interior page have none
NonePage == [kind |-> "none", cells |-> <<>>]
InvalidPage == [kind |-> "invalid", cells |-> <<>>]
CellPage(cells) == [kind |-> "cells", cells |-> cells]
Cell(tuple) == [has_size |-> TRUE, values |-> tuple]
FreedCell == [has_size |-> FALSE, values |-> <<>>]

db_page(database, page_number) ==
    IF page_number \in DOMAIN database THEN database[page_number] ELSE NonePage

\* search.py 314-320
db_cell_values(page) ==
    IF page.kind # "cells" THEN <<>>
    ELSE [i \in 1..Len(page.cells) |->
            IF page.cells[i].has_size THEN page.cells[i].values ELSE <<>>]

\* the checkpoint side read like the base side: a cell without size gives []
checkpoint_cell_values_padded(page) ==
    IF page.kind # "cells" THEN <<>>
    ELSE [i \in 1..Len(page.cells) |->
            IF page.cells[i].has_size THEN page.cells[i].values ELSE <<>>]

\* search.py 322-330
checkpoint_cell_values(page) ==
    IF page.kind # "cells" THEN <<>>
    ELSE IF \E i \in 1..Len(page.cells) : ~page.cells[i].has_size THEN <<>>
    ELSE [i \in 1..Len(page.cells) |-> page.cells[i].values]

\* Python's "value not in list"
NotIn(value, list) == \A i \in 1..Len(list) : list[i] # value

\* a byte-wise diff: a cell is compared with the base cell at its own position
frame_changes_positional(database, frame) ==
    LET db_values == db_cell_values(db_page(database, frame.page_number))
        cp_values == checkpoint_cell_values(frame.page)
        changed == {i \in 1..Len(cp_values) : i > Len(db_values) \/ db_values[i] # cp_values[i]}
        RECURSIVE Pick(_)
        Pick(i) == IF i > Len(cp_values) THEN <<>>
                   ELSE (IF i \in changed THEN <<cp_values[i]>> ELSE <<>>) \o Pick(i + 1)
    IN  Pick(1)

\* search.py 332
frame_changes(database, frame) ==
    LET db_values == db_cell_values(db_page(database, frame.page_number))
        Changed(value) == NotIn(value, db_values)
    IN  SelectSeq(checkpoint_cell_values(frame.page), Changed)

\* a frame that cannot be read
Unreadable(frame) ==
    \/ frame.page.kind # "cells"
    \/ \E i \in 1..Len(frame.page.cells) : ~frame.page.cells[i].has_size

\* the loop over the frames ended by the first frame that cannot be read
RECURSIVE get_changes_until_unreadable(_, _)
get_changes_until_unreadable(database, checkpoint_frames) ==
    IF checkpoint_frames = <<>> \/ Unreadable(Head(checkpoint_frames)) THEN <<>>
    ELSE frame_changes(database, Head(checkpoint_frames))
         \o get_changes_until_unreadable(database, Tail(checkpoint_frames))

\* search.py 305-334
RECURSIVE get_changes_between_db_and_checkpoint(_, _)
get_changes_between_db_and_checkpoint(database, checkpoint_frames) ==
    IF checkpoint_frames = <<>> THEN <<>>
    ELSE frame_changes(database, Head(checkpoint_frames))
         \o get_changes_between_db_and_checkpoint(database, Tail(checkpoint_frames))

\* searchindex.py 510-512
RECURSIVE si_append_changes(_, _, _)
si_append_changes(acc, checkpoint_values, db_values) ==
    IF checkpoint_values = <<>> THEN acc
    ELSE si_append_changes(
            IF NotIn(Head(checkpoint_values), db_values)
            THEN Append(acc, Head(checkpoint_values)) ELSE acc,
            Tail(checkpoint_values), db_values)

\* searchindex.py 481-514
RECURSIVE si_get_changes_between_db_and_checkpoint(_, _, _)
si_get_changes_between_db_and_checkpoint(acc, database, checkpoint_frames) ==
    IF checkpoint_frames = <<>> THEN acc
    ELSE si_get_changes_between_db_and_checkpoint(
            si_append_changes(acc,
                checkpoint_cell_values(Head(checkpoint_frames).page),
                db_cell_values(db_page(database, Head(checkpoint_frames).page_number))),
            database, Tail(checkpoint_frames))

---------------------------------------------------------------------------
(* searchindex.py: SearchIndexPlugin._get_sqlite_records *)

WIN_DATETIME_FIELDS ==
    {"LastModified", "System_Search_GatherTime", "System_DateModified",
     "System_DateCreated", "System_DateAccessed", "System_ActivityHistory_EndTime",
     "System_ActivityHistory_StartTime"}

PROPSTORE_INCLUDE_COLUMNS ==
    {"WorkID", "System_Size", "System_DateModified", "System_DateCreated",
     "System_DateAccessed", "System_FileOwner", "System_ItemPathDisplay",
     "System_ItemType", "System_FileAttributes", "System_Search_AutoSummary",
     "System_Activity_ContentUri", "System_Activity_Description",
     "System_Activity_DisplayText", "System_ActivityHistory_StartTime",
     "System_ActivityHistory_EndTime", "System_ActivityHistory_AppId", "System_Author"}

\* rows of SystemIndex_1_PropertyStore_Metadata of the database under analysis;
\* PropertyId is given by its "."-separated parts, UniqueKey by its "-"-separated parts
MetadataTable ==
    << [Id |-> 1, PropertyId |-> <<"System", "ItemPathDisplay">>,
        UniqueKey |-> <<"4447", "System_ItemPathDisplay">>],
       [Id |-> 2, PropertyId |-> <<"System", "DateModified">>,
        UniqueKey |-> <<"15F", "System_DateModified">>],
       [Id |-> 3, PropertyId |-> <<"System", "Kind">>,
        UniqueKey |-> <<"4502", "System_Kind">>],
       [Id |-> 4, PropertyId |-> <<"System", "ItemType">>,
        UniqueKey |-> <<"4448", "System_ItemType">>] >>

\* str.join
RECURSIVE Join(_, _)
Join(parts, sep) ==
    IF parts = <<>> THEN ""
    ELSE IF Len(parts) = 1 THEN parts[1]
    ELSE parts[1] \o sep \o Join(Tail(parts), sep)

\* searchindex.py 266-270
RECURSIVE propstore_metadata(_)
propstore_metadata(table) ==
    IF table = <<>> THEN EmptyDict
    ELSE LET row == table[Len(table)]
             column_name == Join(row.PropertyId, "_")
             rest == propstore_metadata(SubSeq(table, 1, Len(table) - 1))
         IN  IF column_name \in PROPSTORE_INCLUDE_COLUMNS
             THEN Put(rest, row.Id, column_name) ELSE rest

\* rows of a table: the values of the cells with data, page after page
RECURSIVE PageRows(_, _)
PageRows(database, page_numbers) ==
    IF page_numbers = {} THEN <<>>
    ELSE LET n == CHOOSE x \in page_numbers : \A y \in page_numbers : x <= y
             page == database[n]
             sized == SelectSeq(page.cells, LAMBDA cell : cell.has_size)
         IN  [i \in 1..Len(sized) |-> sized[i].values]
             \o PageRows(database, page_numbers \ {n})

TableRows(database) == PageRows(database, {n \in DOMAIN database : database[n].kind = "cells"})

\* sorted(rows, key=WorkId): a stable sort
RECURSIVE InsertByWorkId(_, _)
InsertByWorkId(sorted, row) ==
    IF sorted = <<>> THEN <<row>>
    ELSE IF sorted[Len(sorted)][1] <= row[1] THEN Append(sorted, row)
    ELSE Append(InsertByWorkId(SubSeq(sorted, 1, Len(sorted) - 1), row), sorted[Len(sorted)])

RECURSIVE SortedByWorkId(_)
SortedByWorkId(list) ==
    IF list = <<>> THEN <<>>
    ELSE InsertByWorkId(SortedByWorkId(SubSeq(list, 1, Len(list) - 1)), list[Len(list)])

\* searchindex.py 285-292 and 355-363
si_value(column_name, value) ==
    IF column_name \in WIN_DATETIME_FIELDS
    THEN IF value # None
         THEN LET decoded == wintimestamp(int_from_bytes(value))
              IN  IF decoded = ValueError THEN None ELSE decoded
         ELSE None
    ELSE value

\* searchindex.py 281-296, one row of the base table
si_base_row(recs, row, metadata) ==
    LET work_id == row[1] IN
    IF row[2] \notin DOMAIN metadata THEN recs
    ELSE LET column_name == metadata[row[2]]
             value == si_value(column_name, row[3])
         IN  IF work_id \notin DOMAIN recs
             THEN Put(recs, work_id, << Put(Put(EmptyDict, column_name, value),
                                             "checkpointindex", PyInt(0)) >>)
             ELSE Put(recs, work_id,
                      [recs[work_id] EXCEPT ![1] = Put(@, column_name, value)])

RECURSIVE si_base_rows(_, _, _)
si_base_rows(recs, table_rows, metadata) ==
    IF table_rows = <<>> THEN recs
    ELSE si_base_rows(si_base_row(recs, Head(table_rows), metadata), Tail(table_rows), metadata)

\* the outcome of a loop: the dict it built, and the exception that ended it
Ok(recs) == [raised |-> "", recs |-> recs]
Raise(name, recs) == [raised |-> name, recs |-> recs]

\* a version is stamped with another index than the checkpoint's
si_stamped_otherwise(version, index) == version["checkpointindex"].b[1] # index

\* a version stamped with the checkpoint's own index counts as older too
si_stamped_not_after(version, index) == version["checkpointindex"].b[1] <= index

\* searchindex.py 375
si_stamped_before(version, index) == version["checkpointindex"].b[1] < index

\* the last version stamped and appended without .copy(): the stamp reaches the
\* stored version too
si_new_version_shared(versions, index) ==
    LET stamped == Put(versions[Len(versions)], "checkpointindex", PyInt(index))
    IN  Append([versions EXCEPT ![Len(versions)] = stamped], stamped)

\* searchindex.py 376-378
si_new_version(versions, index) ==
    Append(versions, Put(versions[Len(versions)], "checkpointindex", PyInt(index)))

\* searchindex.py 350-379, one row of a checkpoint's diff; row[1] and row[2] of a
\* row that is too short raise IndexError
si_wal_row(recs, index, row, metadata) ==
    IF Len(row) < 2 THEN Raise("IndexError", recs)
    ELSE IF row[2] \notin DOMAIN metadata THEN Ok(recs)
    ELSE IF Len(row) < 3 THEN Raise("IndexError", recs)
    ELSE LET column_name == metadata[row[2]]
             value == si_value(column_name, row[3])
             work_id == row[1]
         IN  IF value = TypeError THEN Raise("TypeError", recs)
             ELSE IF work_id \notin DOMAIN recs
             THEN Ok(Put(recs, work_id, << Put(Put(EmptyDict, column_name, value),
                                                "checkpointindex", PyInt(index)) >>))
             ELSE LET versions == recs[work_id]
                      last == versions[Len(versions)]
                      appended == IF si_stamped_before(last, index)
                                  THEN si_new_version(versions, index)
                                  ELSE versions
                  IN  Ok(Put(recs, work_id,
                             [appended EXCEPT ![Len(appended)] = Put(@, column_name, value)]))

\* searchindex.py 350: for row in diff
RECURSIVE si_wal_rows(_, _, _, _)
si_wal_rows(recs, index, diff, metadata) ==
    IF diff = <<>> THEN Ok(recs)
    ELSE LET step == si_wal_row(recs, index, Head(diff), metadata)
         IN  IF step.raised # "" THEN step
             ELSE si_wal_rows(step.recs, index, Tail(diff), metadata)

\* searchindex.py 394-396
RECURSIVE si_versions(_, _, _)
si_versions(out, row, versions) ==
    IF versions = <<>>
    THEN [out EXCEPT ![Len(out)] = Put(@, "latest", PyBool(TRUE))]
    ELSE si_versions(Append(out, Put(DictUnion(row, Head(versions)), "latest", PyBool(FALSE))),
                     row, Tail(versions))

\* searchindex.py 387-399: for iterator in range(max_id)
RECURSIVE si_merge(_, _, _, _, _)
si_merge(out, iterator, max_id, gthr, recs) ==
    IF iterator >= max_id THEN out
    ELSE LET row0 == Put(EmptyDict, "WorkID", PyInt(iterator))
             row == IF iterator \in DOMAIN gthr THEN DictUnion(row0, gthr[iterator]) ELSE row0
             next == IF iterator \in DOMAIN recs THEN si_versions(out, row, recs[iterator])
                     ELSE IF Cardinality(DOMAIN row) > 1 THEN Append(out, row)
                     ELSE out
         IN  si_merge(next, iterator + 1, max_id, gthr, recs)

Max(S) == CHOOSE x \in S : \A y \in S : y <= x

\* searchindex.py 252-258
gthr_record(row) ==
    [k \in {"FileName", "LastModified", "SDID"} |->
        IF k = "LastModified" /\ row[k] # None
        THEN wintimestamp(int_from_bytes(row[k])) ELSE row[k]]

(* inputs of _get_sqlite_records *)

WorkIDs == 1..MaxWorkID
Foo == Str(<<"foo">>)
Bar == Str(<<"bar">>)

\* decoded cells (WorkId, ColumnId, Value) of the property store's page in the
\* base file; column 9 is in no metadata row
SiBaseRows ==
    {<<w, 1, Foo>> : w \in WorkIDs} \cup {<<1, 2, Bytes(<<1>>)>>}

\* decoded cells of the page as a WAL frame holds it; the frame of another
\* table's page can hold a shorter cell
SiWalRows ==
    {<<w, 1, Bar>> : w \in WorkIDs}
    \cup {<<1, 1, Foo>>, <<MaxWorkID, 2, Bytes(<<255, 255>>)>>, <<1, 9, Foo>>}

SeqsUpTo(S, n) == UNION {[1..k -> S] : k \in 0..n}

LeafPages(cell_values, n) ==
    {CellPage(cells) : cells \in SeqsUpTo({Cell(r) : r \in cell_values}, n)}
InteriorPages(n) == {CellPage([i \in 1..k |-> FreedCell]) : k \in 1..n}

SiBasePages == LeafPages(SiBaseRows, MaxCells)

SiCheckpointPages ==
    LeafPages(SiWalRows, MaxCells)
    \cup {InvalidPage, CellPage(<<FreedCell>>), CellPage(<<Cell(<<1, 1>>)>>)}

GthrTable(ids) ==
    [i \in ids |-> [k \in {"FileName", "LastModified", "SDID"} |->
        IF k = "FileName" THEN Str(<<"file">>) ELSE IF k = "SDID" THEN PyInt(i) ELSE None]]

\* the tables of Windows.db that the plugins read
AllTables == {"SystemIndex_1_PropertyStore_Metadata", "SystemIndex_1_PropertyStore"}

\* a path: its directory and the stem and suffix of its name
Path(dir, stem, suffix) == [dir |-> dir, name |-> <<stem, suffix>>]

DefaultDataDirectory == "sysvol/ProgramData/Microsoft/Search/Data"

\* search.py 76-83
DefaultSystemPaths ==
    << Path(DefaultDataDirectory \o "/Applications/Windows", "Windows", ".db"),
       Path(DefaultDataDirectory \o "/Applications/Windows", "Windows", ".edb"),
       Path("sysvol/Documents and Settings/All Users/Application Data/Microsoft/Search/Data/Applications/Windows",
            "Windows", ".edb") >>

NoTarget == [registry |-> "", fs |-> EmptyDict]
NoRun == [done |-> FALSE, databases |-> {}, records |-> <<>>, warnings |-> 0, raised |-> ""]

IdleSearch ==
    /\ target = NoTarget
    /\ SYSTEM_PATHS = DefaultSystemPaths
    /\ databases = {}
    /\ set_order = <<>>
    /\ position = 0
    /\ run = 1
    /\ first_run = NoRun

IdleParse ==
    /\ metadata_rows = <<>>
    /\ catalog = EmptyDict
    /\ ese_columns = EmptyDict
    /\ different_values = <<>>
    /\ si_different_values = <<>>
    /\ frames = <<>>
    /\ calls = 0
    /\ values = EmptyDict
    /\ yielded = <<>>
    /\ records = <<>>
    /\ warnings = 0

Idle == IdleParse /\ IdleSearch

Init ==
    /\ tables = AllTables
    /\ pc = "si_base"
    /\ \E page \in SiBasePages : db = (1 :> page)
    /\ db_wal \in BOOLEAN
    /\ \E ids \in {{}, {1}, {MaxWorkID + 1}} :
          gthr_records = [i \in ids |-> gthr_record(GthrTable(ids)[i])]
    /\ propstore_records = EmptyDict
    /\ checkpoints = <<>>
    /\ rows = <<>>
    /\ raised = ""
    /\ Idle

\* searchindex.py 263-296
SiBaseAggregate ==
    /\ pc = "si_base"
    /\ propstore_records' =
          si_base_rows(EmptyDict, SortedByWorkId(TableRows(db)), propstore_metadata(MetadataTable))
    /\ pc' = "si_wal"
    /\ UNCHANGED <<search_vars, tables, catalog_vars>>
    /\ UNCHANGED <<db, db_wal, gthr_records, checkpoints, rows, different_values,
                   si_different_values, frames, calls, values, yielded, records, warnings, raised>>

UsedIndices == {checkpoints[i].index : i \in 1..Len(checkpoints)}

\* searchindex.py 343-380, one checkpoint of db_wal.wal.checkpoints
SiCheckpoint(index, frame) ==
    /\ pc = "si_wal"
    /\ db_wal
    /\ Len(checkpoints) < MaxCheckpoints
    /\ index \notin UsedIndices
    /\ LET diff == si_get_changes_between_db_and_checkpoint(<<>>, db, <<frame>>)
           out == si_wal_rows(propstore_records, index, diff, propstore_metadata(MetadataTable))
       IN  /\ propstore_records' = out.recs
           /\ raised' = out.raised
           /\ pc' = IF out.raised = "" THEN "si_wal" ELSE "si_raised"
           /\ checkpoints' = Append(checkpoints, [index |-> index, diff |-> diff])
    /\ UNCHANGED <<search_vars, tables, catalog_vars>>
    /\ UNCHANGED <<db, db_wal, gthr_records, rows, different_values,
                   si_different_values, frames, calls, values, yielded, records, warnings>>

\* searchindex.py 383-404
SiMerge ==
    /\ pc = "si_wal"
    /\ IF DOMAIN gthr_records = {} \/ DOMAIN propstore_records = {}
       THEN /\ raised' = "ValueError"
            /\ pc' = "si_raised"
            /\ rows' = rows
       ELSE /\ rows' = si_merge(<<>>, 0,
                                 Max({Max(DOMAIN gthr_records), Max(DOMAIN propstore_records)}),
                                 gthr_records, propstore_records)
            /\ pc' = "si_done"
            /\ raised' = raised
    /\ UNCHANGED <<search_vars, tables, catalog_vars>>
    /\ UNCHANGED <<db, db_wal, gthr_records, propstore_records, checkpoints,
                   different_values, si_different_values, frames, calls, values, yielded, records, warnings>>

Next ==
    \/ SiBaseAggregate
    \/ \E index \in 1..MaxCheckpoints, page \in SiCheckpointPages :
          SiCheckpoint(index, [page_number |-> 1, page |-> page])
    \/ SiMerge

Spec == Init /\ [][Next]_vars

---------------------------------------------------------------------------
(* The differencer on its own: one call of get_changes_between_db_and_checkpoint *)

MaxFrames == 2

DiffRows == {<<1, 1, Foo>>, <<1, 1, Bar>>, <<MaxWorkID, 1, Foo>>, <<1, 1>>}
DiffPages == LeafPages(DiffRows, MaxCells) \cup InteriorPages(MaxCells) \cup {InvalidPage, NonePage}
DiffFrames == [page_number : 1..2, page : DiffPages]

InitDiff ==
    /\ tables = AllTables
    /\ pc = "diff"
    /\ \E page \in DiffPages : db = IF page = NonePage THEN EmptyDict ELSE (1 :> page)
    /\ db_wal = TRUE
    /\ gthr_records = EmptyDict
    /\ propstore_records = EmptyDict
    /\ checkpoints = <<>>
    /\ rows = <<>>
    /\ raised = ""
    /\ Idle

\* search.py 305-334 and searchindex.py 481-514 on the same checkpoint
DiffCheckpoint(checkpoint_frames) ==
    /\ pc = "diff"
    /\ frames' = checkpoint_frames
    /\ different_values' = get_changes_between_db_and_checkpoint(db, checkpoint_frames)
    /\ si_different_values' = si_get_changes_between_db_and_checkpoint(<<>>, db, checkpoint_frames)
    /\ pc' = "diff_done"
    /\ UNCHANGED <<search_vars, tables, catalog_vars>>
    /\ UNCHANGED <<db, db_wal, gthr_records, propstore_records, checkpoints, rows,
                   calls, values, yielded, records, warnings, raised>>

NextDiff ==
    \E n \in 1..MaxFrames : \E checkpoint_frames \in [1..n -> DiffFrames] :
        DiffCheckpoint(checkpoint_frames)

SpecDiff == InitDiff /\ [][NextDiff]_vars

---------------------------------------------------------------------------
(* search.py: SearchIndexPlugin.build_record *)

\* a str is the sequence of its tokens; RE_URL is
\* (?P<browser>.+)\:\/\/\{(?P<sid>.+)\}\/(?P<url>.+)$ and both .+ are greedy
NoMatch == [ok |-> FALSE, browser |-> <<>>, sid |-> <<>>, url |-> <<>>]

RE_URL_match(string) ==
    LET n == Len(string)
        splits == {pq \in (1..n) \X (1..n) :
                     /\ pq[1] + 5 <= pq[2]
                     /\ pq[2] + 3 <= n
                     /\ SubSeq(string, pq[1] + 1, pq[1] + 4) = <<":", "/", "/", "{">>
                     /\ SubSeq(string, pq[2] + 1, pq[2] + 2) = <<"}", "/">>}
    IN  IF splits = {} THEN NoMatch
        ELSE LET p == Max({pq[1] : pq \in splits})
                 q == Max({pq[2] : pq \in {x \in splits : x[1] = p}})
             IN  [ok |-> TRUE,
                  browser |-> SubSeq(string, 1, p),
                  sid |-> SubSeq(string, p + 5, q),
                  url |-> SubSeq(string, q + 3, n)]

\* search.py 65-68
BROWSER_RECORD_MAP == {<<"iehistory">>, <<"winrt">>}

\* Python truth value of a value
Truthy(v) ==
    CASE v.t = "none" -> FALSE
      [] v.t = "str" -> v.s # <<>>
      [] v.t = "bytes" -> v.b # <<>>
      [] v.t \in {"int", "bool"} -> v.b[1] # 0
      [] OTHER -> TRUE

IsError(v) == v.t \in {"TypeError", "ValueError"}

\* wintimestamp(int.from_bytes(values.get(key, b""), "little"))
timestamp_of(vals, key) == wintimestamp(int_from_bytes(Get(vals, key, Bytes(<<>>))))

\* the result of one generator call: the records it yielded, the warnings it
\* logged and the exception that ended it
Yield(kind, fields) ==
    [yielded |-> << [kind |-> kind, fields |-> fields] >>, warnings |-> 0, raised |-> ""]
\* the failed match used without the check of search.py 242-246
WarnUnchecked == [yielded |-> <<>>, warnings |-> 0, raised |-> "AttributeError"]
Warn == [yielded |-> <<>>, warnings |-> 1, raised |-> ""]
Throw(name) == [yielded |-> <<>>, warnings |-> 0, raised |-> name]

\* the keyword arguments of a record are evaluated in order: the first one that
\* raises ends the call
FirstError(args) ==
    LET bad == {i \in 1..Len(args) : IsError(args[i])}
    IN  IF bad = {} THEN "" ELSE args[CHOOSE i \in bad : \A j \in bad : i <= j].t

\* target.user_details.find(sid): the users of the target by SID
find_user(sid) == IF sid = <<"S-1-5-21">> THEN Str(<<"alice">>) ELSE None

\* urllib.parse.urlparse(url).hostname or None
hostname(url) == IF url.t = "str" /\ Len(url.s) >= 5 THEN Str(<<url.s[5]>>) ELSE None

DbPath == Str(<<"Windows.db">>)

\* search.py 226-237
activity_record(vals) ==
    LET ts_start == timestamp_of(vals, "System_ActivityHistory_StartTime")
        ts_end == timestamp_of(vals, "System_ActivityHistory_EndTime")
        duration == int_from_bytes(Get(vals, "System_ActivityHistory_ActiveDuration", Bytes(<<>>)))
        error == FirstError(<<ts_start, ts_end, duration>>)
    IN  IF error # "" THEN Throw(error)
        ELSE Yield("activity",
                [k \in {"ts_start", "ts_end", "duration", "application_name",
                        "application_id", "activity_id", "source", "checkpoint"} |->
                    CASE k = "ts_start" -> ts_start
                      [] k = "ts_end" -> ts_end
                      [] k = "duration" -> duration
                      [] k = "application_name" -> Get(vals, "System_Activity_AppDisplayName", None)
                      [] k = "application_id" -> Get(vals, "System_ActivityHistory_AppId", None)
                      [] k = "activity_id" -> Get(vals, "System_ActivityHistory_AppActivityId", None)
                      [] k = "source" -> DbPath
                      [] k = "checkpoint" -> Get(vals, "checkpoint", None)])

\* search.py 239-272
browser_record(vals, user_details) ==
    LET system_itemurl == Get(vals, "System_ItemUrl", None) IN
    IF ~Truthy(system_itemurl) THEN Warn
    ELSE IF system_itemurl.t # "str" THEN Throw("TypeError")
    ELSE LET match == RE_URL_match(system_itemurl.s) IN
         IF ~match.ok THEN Warn
         ELSE IF match.browser \notin BROWSER_RECORD_MAP THEN Warn
         ELSE LET found == find_user(match.sid)
                  user == IF Truthy(found) THEN found ELSE user_details
                  ts == timestamp_of(vals, "System_Link_DateVisited")
                  target_url == Get(vals, "System_Link_TargetUrl", None)
              IN  IF IsError(ts) THEN Throw(ts.t)
                  ELSE Yield("browser",
                          [k \in {"ts", "browser", "url", "title", "host", "source", "user"} |->
                              CASE k = "ts" -> ts
                                [] k = "browser" -> Str(match.browser)
                                [] k = "url" -> IF Truthy(target_url) THEN target_url
                                                ELSE Str(match.url)
                                [] k = "title" -> Get(vals, "System_Title", None)
                                [] k = "host" -> hostname(target_url)
                                [] k = "source" -> DbPath
                                [] k = "user" -> user])

\* search.py 275-290
file_record(vals) ==
    LET ts == timestamp_of(vals, "System_Search_GatherTime")
        ts_mtime == timestamp_of(vals, "System_DateModified")
        ts_btime == timestamp_of(vals, "System_DateCreated")
        ts_atime == timestamp_of(vals, "System_DateAccessed")
        mime == Get(vals, "System_MIMEType", None)
        content == Get(vals, "System_ContentType", None)
        b_size == Get(vals, "System_Size", None)
        size == IF Truthy(b_size) THEN int_from_bytes(b_size) ELSE None
        error == FirstError(<<ts, ts_mtime, ts_btime, ts_atime, size>>)
    IN  IF error # "" THEN Throw(error)
        ELSE Yield("file",
                [k \in {"ts", "ts_mtime", "ts_btime", "ts_atime", "path", "type", "size",
                        "data", "source", "checkpoint"} |->
                    CASE k = "ts" -> ts
                      [] k = "ts_mtime" -> ts_mtime
                      [] k = "ts_btime" -> ts_btime
                      [] k = "ts_atime" -> ts_atime
                      [] k = "path" -> Get(vals, "System_ItemPathDisplay", None)
                      [] k = "type" -> IF Truthy(mime) THEN mime
                                       ELSE IF Truthy(content) THEN content
                                       ELSE Get(vals, "System_ItemTypeText", None)
                      [] k = "size" -> size
                      [] k = "data" -> Get(vals, "System_Search_AutoSummary", None)
                      [] k = "source" -> DbPath
                      [] k = "checkpoint" -> Get(vals, "checkpoint", None)])

\* search.py 221-290
build_record(vals, user_details) ==
    IF Get(vals, "System_ItemType", None) = Str(<<"ActivityHistoryItem">>)
    THEN activity_record(vals)
    ELSE IF Get(vals, "System_Search_Store", None) \in {Str(<<"iehistory">>), Str(<<"winrt">>)}
    THEN browser_record(vals, user_details)
    ELSE file_record(vals)

(* inputs of build_record *)

Absent == [t |-> "absent", s |-> <<>>, b |-> <<>>]
WithoutAbsent(d) == [k \in {x \in DOMAIN d : d[x] # Absent} |-> d[k]]

ItemUrlInputs ==
    {Absent, None, Str(<<>>),
     Str(<<"iehistory", ":", "/", "/", "{", "S-1-5-21", "}", "/", "example.com">>),
     Str(<<"winrt", ":", "/", "/", "{", "S-1-5-18", "}", "/", "example.com">>),
     Str(<<"chrome", ":", "/", "/", "{", "S-1-5-21", "}", "/", "example.com">>),
     Str(<<"iehistory", ":", "/", "/", "example.com">>),
     Str(<<"winrt", ":", "/", "/", "{", "S-1-5-21", "}", "/">>)}
BytesInputs ==
    {None, Bytes(<<>>), Bytes(<<0, 0>>), Bytes(<<1>>), Bytes(<<255, 255>>)}
BytesKeys ==
    {"System_ActivityHistory_StartTime", "System_ActivityHistory_ActiveDuration",
     "System_Link_DateVisited", "System_Search_GatherTime", "System_Size"}

SnapshotKeys ==
    {"System_ItemType", "System_Search_Store", "System_ItemUrl", "checkpoint"} \cup BytesKeys

\* a snapshot with at most one of the byte-valued properties
Snapshot(item_type, store, item_url, key, bytes) ==
    WithoutAbsent([k \in SnapshotKeys |->
        CASE k = "System_ItemType" -> item_type
          [] k = "System_Search_Store" -> store
          [] k = "System_ItemUrl" -> item_url
          [] k = "checkpoint" -> PyInt(0)
          [] OTHER -> IF k = key THEN bytes ELSE Absent])

\* snapshots of the three kinds of item: activity history, browser history, file
SnapshotInputs ==
    {Snapshot(Str(<<"ActivityHistoryItem">>), store, Absent, key, bytes) :
        store \in {Absent, Str(<<"iehistory">>)},
        key \in {"System_ActivityHistory_StartTime", "System_ActivityHistory_ActiveDuration"},
        bytes \in BytesInputs \cup {Absent}}
    \cup
    {Snapshot(Absent, store, item_url, "System_Link_DateVisited", bytes) :
        store \in {Str(<<"iehistory">>), Str(<<"winrt">>)}, item_url \in ItemUrlInputs,
        bytes \in BytesInputs \cup {Absent}}
    \cup
    {Snapshot(item_type, store, Absent, key, bytes) :
        item_type \in {Absent, Str(<<".txt">>)}, store \in {Absent, Str(<<"file">>)},
        key \in {"System_Search_GatherTime", "System_Size"},
        bytes \in BytesInputs \cup {Absent}}

InitBuild ==
    /\ tables = AllTables
    /\ pc = "build"
    /\ db = EmptyDict
    /\ db_wal = FALSE
    /\ gthr_records = EmptyDict
    /\ propstore_records = EmptyDict
    /\ checkpoints = <<>>
    /\ rows = <<>>
    /\ raised = ""
    /\ Idle

\* one "yield from self.build_record(values, user_details, path)" of a batch
BuildRecord(vals, user_details) ==
    /\ pc = "build"
    /\ calls < MaxBatch
    /\ LET out == build_record(vals, user_details) IN
       /\ yielded' = out.yielded
       /\ records' = records \o out.yielded
       /\ warnings' = warnings + out.warnings
       /\ raised' = out.raised
       /\ pc' = IF out.raised = "" THEN "build" ELSE "build_raised"
    /\ values' = vals
    /\ calls' = calls + 1
    /\ UNCHANGED <<search_vars, tables, catalog_vars>>
    /\ UNCHANGED <<db, db_wal, gthr_records, propstore_records, checkpoints, rows,
                   different_values, si_different_values, frames>>

NextBuild ==
    \E vals \in SnapshotInputs, user_details \in {None, Str(<<"bob">>)} :
        BuildRecord(vals, user_details)

SpecBuild == InitBuild /\ [][NextBuild]_vars

---------------------------------------------------------------------------
(* search.py: SearchIndexPlugin.parse_sqlite *)

\* str(int) of a non-negative int
Digits == <<"0", "1", "2", "3", "4", "5", "6", "7", "8", "9">>

RECURSIVE str_int(_)
str_int(n) == IF n < 10 THEN Digits[n + 1] ELSE str_int(n \div 10) \o Digits[(n % 10) + 1]

\* key.rsplit("-", maxsplit=1)[-1]: what follows the final separator
split_after_last(parts) ==
    IF parts = <<>> THEN "" ELSE parts[Len(parts)]

\* key.split("-", maxsplit=1)[-1] of a key given by its "-"-separated parts
split_after_first(parts) ==
    IF Len(parts) <= 1 THEN Join(parts, "-") ELSE Join(Tail(parts), "-")

\* search.py 183-186
RECURSIVE ps_columns(_)
ps_columns(table) ==
    IF table = <<>> THEN EmptyDict
    ELSE LET row == table[Len(table)]
         IN  Put(ps_columns(SubSeq(table, 1, Len(table) - 1)),
                 row.Id, split_after_first(row.UniqueKey))

\* a column name that leaves the ColumnID out
ps_column_name_unnamed(columns, column_id) == Get(columns, column_id, "")

\* search.py 197 and 210: columns.get(column_id, str(column_id))
ps_column_name(columns, column_id) == Get(columns, column_id, str_int(column_id))

\* propstore_records of parse_sqlite is a dict in insertion order: a sequence of
\* [work_id, values]
ps_index(recs, work_id) ==
    LET found == {i \in 1..Len(recs) : recs[i].work_id = work_id}
    IN  IF found = {} THEN 0 ELSE CHOOSE i \in found : TRUE

\* search.py 193
ps_new_records == <<>>

\* a row that leaves alone a property that the snapshot already holds
ps_base_row_first_wins(recs, row, columns) ==
    LET work_id == row[1]
        column_name == ps_column_name(columns, row[2])
        i == ps_index(recs, work_id)
    IN  IF i = 0
        THEN Append(recs, [work_id |-> work_id,
                           values |-> Put(Put(EmptyDict, column_name, row[3]),
                                          "checkpoint", PyInt(0))])
        ELSE IF column_name \in DOMAIN recs[i].values THEN recs
        ELSE [recs EXCEPT ![i].values = Put(@, column_name, row[3])]

\* search.py 195-202, one row of the base table
ps_base_row(recs, row, columns) ==
    LET work_id == row[1]
        column_name == ps_column_name(columns, row[2])
        value == row[3]
        i == ps_index(recs, work_id)
    IN  IF i = 0
        THEN Append(recs, [work_id |-> work_id,
                           values |-> Put(Put(EmptyDict, column_name, value),
                                          "checkpoint", PyInt(0))])
        ELSE [recs EXCEPT ![i].values = Put(@, column_name, value)]

RECURSIVE ps_base_rows(_, _, _)
ps_base_rows(recs, table_rows, columns) ==
    IF table_rows = <<>> THEN recs
    ELSE ps_base_rows(ps_base_row(recs, Head(table_rows), columns), Tail(table_rows), columns)

\* search.py 209-215, one row of a checkpoint's diff
ps_wal_row(recs, index, row, columns) ==
    IF Len(row) < 2 THEN Raise("IndexError", recs)
    ELSE LET work_id == row[1]
             value == IF Len(row) > 2 THEN row[3] ELSE None
             column_name == ps_column_name(columns, row[2])
             i == ps_index(recs, work_id)
         IN  IF i = 0
             THEN Ok(Append(recs, [work_id |-> work_id,
                                   values |-> Put(Put(EmptyDict, column_name, value),
                                                  "checkpoint", PyInt(index))]))
             ELSE Ok([recs EXCEPT ![i].values =
                         Put(Put(@, column_name, value), "checkpoint", PyInt(index))])

\* search.py 208: for row in diff
RECURSIVE ps_wal_rows(_, _, _, _)
ps_wal_rows(recs, index, diff, columns) ==
    IF diff = <<>> THEN Ok(recs)
    ELSE LET step == ps_wal_row(recs, index, Head(diff), columns)
         IN  IF step.raised # "" THEN step
             ELSE ps_wal_rows(step.recs, index, Tail(diff), columns)

\* search.py 218-219: the records of the snapshots in dict order, up to the
\* first call of build_record that raises
RECURSIVE build_records(_, _, _)
build_records(out, snapshots, user_details) ==
    IF snapshots = <<>> \/ out.raised # "" THEN out
    ELSE LET step == build_record(Head(snapshots), user_details)
         IN  build_records([yielded |-> out.yielded \o step.yielded,
                            warnings |-> out.warnings + step.warnings,
                            raised |-> step.raised],
                           Tail(snapshots), user_details)

NothingYielded == [yielded |-> <<>>, warnings |-> 0, raised |-> ""]

\* search.py 183-191: db.table(name) is None for a table that the file lacks;
\* .rows() of None raises AttributeError, and a missing property store is
\* logged before parse_sqlite returns
ps_open_tables(names) ==
    IF "SystemIndex_1_PropertyStore_Metadata" \notin names THEN Throw("AttributeError")
    ELSE IF "SystemIndex_1_PropertyStore" \notin names THEN Warn
    ELSE NothingYielded

(* inputs of parse_sqlite *)

\* decoded cells (WorkId, ColumnId, Value) of the property store's page in the
\* base file; columns 9 and 12 are in no metadata row
PsBaseRows ==
    {<<w, 1, Foo>> : w \in WorkIDs} \cup {<<1, 9, Foo>>, <<1, 1, Bar>>}

\* decoded cells of the page as a WAL frame holds it; the frame of another
\* table's page can hold shorter cells
PsWalRows ==
    {<<w, 1, Bar>> : w \in WorkIDs}
    \cup {<<1, 9, Bar>>, <<MaxWorkID, 12, Foo>>, <<1, 1>>, <<1>>}

PsBasePages == LeafPages(PsBaseRows, MaxCells)
PsCheckpointPages == LeafPages(PsWalRows, MaxCells) \cup {InvalidPage, CellPage(<<FreedCell>>)}

InitSqlite ==
    /\ tables \in {AllTables} \cup {AllTables \ {name} : name \in AllTables}
    /\ pc = "ps_base"
    /\ \E page \in PsBasePages : db = (1 :> page)
    /\ db_wal \in BOOLEAN
    /\ gthr_records = EmptyDict
    /\ propstore_records = <<>>
    /\ checkpoints = <<>>
    /\ rows = <<>>
    /\ raised = ""
    /\ Idle

\* search.py 183-202
PsBaseAggregate ==
    /\ pc = "ps_base"
    /\ LET out == ps_open_tables(tables) IN
       /\ raised' = out.raised
       /\ warnings' = warnings + out.warnings
       /\ pc' = IF out.raised # "" THEN "ps_raised"
                ELSE IF out.warnings > 0 THEN "ps_returned"
                ELSE "ps_wal"
       /\ propstore_records' =
             IF out = NothingYielded
             THEN ps_base_rows(ps_new_records, TableRows(db), ps_columns(MetadataTable))
             ELSE propstore_records
    /\ UNCHANGED <<search_vars, tables, catalog_vars>>
    /\ UNCHANGED <<db, db_wal, gthr_records, checkpoints, rows, different_values,
                   si_different_values, frames, calls, values, yielded, records>>

\* search.py 206-215, one checkpoint of db_wal.wal.checkpoints
PsCheckpoint(index, frame) ==
    /\ pc = "ps_wal"
    /\ db_wal
    /\ Len(checkpoints) < MaxCheckpoints
    /\ index \notin UsedIndices
    /\ LET diff == get_changes_between_db_and_checkpoint(db, <<frame>>)
           out == ps_wal_rows(propstore_records, index, diff, ps_columns(MetadataTable))
       IN  /\ propstore_records' = out.recs
           /\ raised' = out.raised
           /\ pc' = IF out.raised = "" THEN "ps_wal" ELSE "ps_raised"
           /\ checkpoints' = Append(checkpoints, [index |-> index, diff |-> diff])
    /\ UNCHANGED <<search_vars, tables, catalog_vars>>
    /\ UNCHANGED <<db, db_wal, gthr_records, rows, different_values,
                   si_different_values, frames, calls, values, yielded, records, warnings>>

\* search.py 218-219
PsYield ==
    /\ pc = "ps_wal"
    /\ LET out == build_records(NothingYielded,
                                [i \in 1..Len(propstore_records) |-> propstore_records[i].values],
                                None)
       IN  /\ records' = out.yielded
           /\ yielded' = out.yielded
           /\ warnings' = out.warnings
           /\ raised' = out.raised
           /\ pc' = IF out.raised = "" THEN "ps_done" ELSE "ps_raised"
    /\ calls' = Len(propstore_records)
    /\ UNCHANGED <<search_vars, tables, catalog_vars>>
    /\ UNCHANGED <<db, db_wal, gthr_records, propstore_records, checkpoints, rows,
                   different_values, si_different_values, frames, values>>

NextSqlite ==
    \/ PsBaseAggregate
    \/ \E index \in 1..MaxCheckpoints, page \in PsCheckpointPages :
          PsCheckpoint(index, [page_number |-> 1, page |-> page])
    \/ PsYield

SpecSqlite == InitSqlite /\ [][NextSqlite]_vars

---------------------------------------------------------------------------
(* search.py: SearchIndexPlugin.__init__, find_databases, check_compatible, search *)

\* search.py 206-215: for checkpoint in db_wal.wal.checkpoints
RECURSIVE ps_checkpoints(_, _, _, _)
ps_checkpoints(recs, database, wal_checkpoints, columns) ==
    IF wal_checkpoints = <<>> THEN Ok(recs)
    ELSE LET checkpoint == Head(wal_checkpoints)
             diff == get_changes_between_db_and_checkpoint(database, checkpoint.frames)
             step == ps_wal_rows(recs, checkpoint.index, diff, columns)
         IN  IF step.raised # "" THEN step
             ELSE ps_checkpoints(step.recs, database, Tail(wal_checkpoints), columns)

\* search.py 169-219
parse_sqlite(file, user_details) ==
    LET columns == ps_columns(MetadataTable)
        base == ps_base_rows(ps_new_records, TableRows(file.db), columns)
        replayed == IF file.wal THEN ps_checkpoints(base, file.db, file.checkpoints, columns)
                    ELSE Ok(base)
    IN  IF ps_open_tables(file.tables) # NothingYielded
        THEN [recs |-> propstore_records, out |-> ps_open_tables(file.tables)]
        ELSE
        [recs |-> replayed.recs,
         out |-> IF replayed.raised # "" THEN Throw(replayed.raised)
                 ELSE build_records(NothingYielded,
                                    [i \in 1..Len(replayed.recs) |-> replayed.recs[i].values],
                                    user_details)]

\* search.py 293-303: the record seen through the column names without their
\* prefix; build_record reads only columns of the table in the inputs below
tr_columns(column_names) ==
    [key \in {split_after_first(column_names[i]) : i \in 1..Len(column_names)} |->
        LET i == Max({j \in 1..Len(column_names) : split_after_first(column_names[j]) = key})
        IN  column_names[i]]

TableRecord(column_names, record) ==
    [key \in DOMAIN tr_columns(column_names) |-> record[tr_columns(column_names)[key]]]

\* search.py 159-167
parse_esedb(file, user_details) ==
    build_records(NothingYielded,
                  [i \in 1..Len(file.table) |-> TableRecord(file.column_names, file.table[i])],
                  user_details)

suffix(path) == path.name[Len(path.name)]

\* search.py 150-157, one database of the loop
search_database(database, fs) ==
    LET file == fs[database[1]] IN
    IF suffix(database[1]) = ".edb"
    THEN [recs |-> propstore_records, out |-> parse_esedb(file, database[2])]
    ELSE IF suffix(database[1]) = ".db" THEN parse_sqlite(file, database[2])
    ELSE [recs |-> propstore_records, out |-> Warn]

\* search.py 106 and 114
digest(path, fs) == <<path.name, fs[path].size, fs[path].mtime>>

\* the digests of the databases of the plugin constructed before
seen_before == {digest(d[1], target.fs) : d \in first_run.databases}

\* search.py 95
new_seen == {}

\* search.py 103-108 and 110-116: the paths that are files, not seen before
RECURSIVE scan(_, _, _, _)
scan(acc, paths, user_details, fs) ==
    IF paths = <<>> THEN acc
    ELSE LET path == Head(paths)
             fresh == path \in DOMAIN fs /\ digest(path, fs) \notin acc.seen
         IN  scan(IF fresh
                  THEN [seen |-> acc.seen \cup {digest(path, fs)},
                        found |-> Append(acc.found, <<path, user_details>>)]
                  ELSE acc,
                  Tail(paths), user_details, fs)

\* the users of the target with a home directory, and the glob of search.py 85-88
Alice == Str(<<"alice">>)
RoamingDirectory == "C:/Users/alice/AppData/Roaming/Microsoft/Search/Data/Applications/S-1-5-21"

RECURSIVE SetToSeq(_)
SetToSeq(S) == IF S = {} THEN <<>> ELSE LET x == CHOOSE y \in S : TRUE IN <<x>> \o SetToSeq(S \ {x})

glob(fs) == SetToSeq({path \in DOMAIN fs : path.dir = RoamingDirectory})

\* search.py 94-116
find_databases(tgt, system_paths) ==
    IF tgt.registry = ""
    THEN [raised |-> "RegistryKeyNotFoundError", SYSTEM_PATHS |-> system_paths, found |-> <<>>]
    ELSE LET paths == system_paths
                        \o << Path(tgt.registry \o "/Applications/Windows", "Windows", ".edb"),
                              Path(tgt.registry \o "/Applications/Windows", "Windows", ".db") >>
             system == scan([seen |-> new_seen, found |-> <<>>], paths, None, tgt.fs)
             user == scan(system, glob(tgt.fs), Alice, tgt.fs)
         IN  [raised |-> "", SYSTEM_PATHS |-> paths, found |-> user.found]

\* for db_path, user_details in self.databases: the members of the set in the
\* order of this process
iteration(set) == SelectSeq(set_order, LAMBDA d : d \in set)

(* inputs of search *)

WindowsDb == Path(DefaultDataDirectory \o "/Applications/Windows", "Windows", ".db")
WindowsEdb == Path(DefaultDataDirectory \o "/Applications/Windows", "Windows", ".edb")
RoamingSdb == Path(RoamingDirectory, "Backup", ".sdb")

File(size, database, wal, wal_checkpoints, column_names, table) ==
    [size |-> size, mtime |-> 1, tables |-> AllTables,
     db |-> database, wal |-> wal, checkpoints |-> wal_checkpoints,
     column_names |-> column_names, table |-> table]

\* a database file that lacks one of its tables
WithoutTable(file, name) == [file EXCEPT !.tables = @ \ {name}]

Frame(tuple) == [page_number |-> 1, page |-> CellPage(<<Cell(tuple)>>)]

\* a base row and a checkpoint that renames the item; a checkpoint whose diff has
\* no value for System_DateModified; two items and no WAL
SqliteFiles ==
    {File(1, 1 :> CellPage(<<Cell(<<1, 1, Foo>>)>>), TRUE,
          <<[index |-> 1, frames |-> <<Frame(<<1, 1, Bar>>)>>]>>, <<>>, <<>>),
     File(2, 1 :> CellPage(<<Cell(<<1, 1, Foo>>)>>), TRUE,
          <<[index |-> 1, frames |-> <<Frame(<<1, 2>>)>>]>>, <<>>, <<>>),
     File(3, 1 :> CellPage(<<Cell(<<1, 1, Foo>>), Cell(<<2, 1, Bar>>)>>), FALSE, <<>>, <<>>, <<>>),
     WithoutTable(File(7, 1 :> CellPage(<<Cell(<<1, 1, Foo>>)>>), FALSE, <<>>, <<>>, <<>>),
                  "SystemIndex_1_PropertyStore_Metadata"),
     WithoutTable(File(8, EmptyDict, FALSE, <<>>, <<>>, <<>>), "SystemIndex_1_PropertyStore")}

EsedbColumns ==
    << <<"4448", "System_ItemType">>, <<"4625", "System_Search_Store">>,
       <<"33", "System_ItemUrl">>, <<"4468", "System_Link_DateVisited">>,
       <<"4469", "System_Link_TargetUrl">>, <<"4440", "System_Title">> >>

EsedbRecord(item_url) ==
    [c \in Range(EsedbColumns) |->
        CASE c[2] = "System_Search_Store" -> Str(<<"iehistory">>)
          [] c[2] = "System_ItemUrl" -> item_url
          [] c[2] = "System_Link_DateVisited" -> Bytes(<<1>>)
          [] OTHER -> None]

\* a browser history store with a well-formed and a malformed item URL
EsedbFiles ==
    {File(4, EmptyDict, FALSE, <<>>, EsedbColumns,
          <<EsedbRecord(Str(<<"iehistory", ":", "/", "/", "{", "S-1-5-21", "}", "/", "example.com">>))>>),
     File(5, EmptyDict, FALSE, <<>>, EsedbColumns,
          <<EsedbRecord(Str(<<"iehistory", ":", "/", "/", "example.com">>))>>)}

OtherFiles == {File(6, EmptyDict, FALSE, <<>>, <<>>, <<>>)}

Orders(S) == {order \in [1..Cardinality(S) -> S] : Range(order) = S}

FileSystems ==
    {DictUnion(DictUnion(a, b), c) :
        a \in {EmptyDict} \cup {WindowsDb :> f : f \in SqliteFiles},
        b \in {EmptyDict} \cup {WindowsEdb :> f : f \in EsedbFiles},
        c \in {EmptyDict} \cup {RoamingSdb :> f : f \in OtherFiles}}

InitSearch ==
    /\ tables = AllTables
    /\ pc = "new"
    /\ \E registry \in {"", DefaultDataDirectory, "sysvol/Search"}, fs \in FileSystems :
          target = [registry |-> registry, fs |-> fs]
    /\ SYSTEM_PATHS = DefaultSystemPaths
    /\ databases = {}
    /\ set_order \in Orders({<<WindowsDb, None>>, <<WindowsEdb, None>>, <<RoamingSdb, Alice>>})
    /\ position = 0
    /\ run = 1
    /\ first_run = NoRun
    /\ db = EmptyDict
    /\ db_wal = FALSE
    /\ gthr_records = EmptyDict
    /\ propstore_records = <<>>
    /\ checkpoints = <<>>
    /\ rows = <<>>
    /\ raised = ""
    /\ IdleParse

parse_vars == <<catalog_vars, db, db_wal, tables, gthr_records, checkpoints, rows, different_values,
                si_different_values, frames, calls, values>>

\* search.py 90-92
NewPlugin ==
    /\ pc = "new"
    /\ LET out == find_databases(target, SYSTEM_PATHS) IN
       /\ SYSTEM_PATHS' = out.SYSTEM_PATHS
       /\ databases' = Range(out.found)
       /\ raised' = out.raised
       /\ pc' = IF out.raised = "" THEN "constructed" ELSE "init_raised"
    /\ UNCHANGED <<target, set_order, position, run, first_run, propstore_records,
                   yielded, records, warnings>>
    /\ UNCHANGED parse_vars

\* search.py 118-120
check_compatible ==
    /\ pc = "constructed"
    /\ IF databases = {}
       THEN raised' = "UnsupportedPluginError" /\ pc' = "unsupported"
       ELSE raised' = raised /\ pc' = "search"
    /\ UNCHANGED <<target, SYSTEM_PATHS, databases, set_order, position, run, first_run,
                   propstore_records, yielded, records, warnings>>
    /\ UNCHANGED parse_vars

\* search.py 149-157, one database of self.databases
SearchDatabase ==
    /\ pc = "search"
    /\ position < Cardinality(databases)
    /\ LET step == search_database(iteration(databases)[position + 1], target.fs) IN
       /\ propstore_records' = step.recs
       /\ yielded' = step.out.yielded
       /\ records' = records \o step.out.yielded
       /\ warnings' = warnings + step.out.warnings
       /\ raised' = step.out.raised
       /\ pc' = IF step.out.raised # "" THEN "search_raised"
                ELSE IF position + 1 = Cardinality(databases) THEN "searched"
                ELSE "search"
    /\ position' = position + 1
    /\ UNCHANGED <<target, SYSTEM_PATHS, databases, set_order, run, first_run>>
    /\ UNCHANGED parse_vars

\* the query is over; the plugin is constructed and queried once more in the
\* same process, on the same target
SecondRun ==
    /\ pc \in {"init_raised", "unsupported", "search_raised", "searched"}
    /\ run = 1
    /\ first_run' = [done |-> TRUE, databases |-> databases, records |-> records,
                     warnings |-> warnings, raised |-> raised]
    /\ run' = 2
    /\ pc' = "new"
    /\ databases' = {}
    /\ position' = 0
    /\ yielded' = <<>>
    /\ records' = <<>>
    /\ warnings' = 0
    /\ raised' = ""
    /\ UNCHANGED <<target, SYSTEM_PATHS, set_order, propstore_records>>
    /\ UNCHANGED parse_vars

NextSearch ==
    \/ NewPlugin
    \/ check_compatible
    \/ SearchDatabase
    \/ SecondRun

SpecSearch == InitSearch /\ [][NextSearch]_vars

---------------------------------------------------------------------------
(* The column catalog on its own: the dict comprehensions of search.py 183-186
   and 299 applied to metadata rows and column names of any shape *)

\* metadata keys given by their "-"-separated parts: without separator, with
\* one, and with two
UniqueKeys ==
    { <<"System_Kind">>, <<"4502", "System_Kind">>, <<"15F", "System_Kind">>,
      <<"4502", "System", "Kind">>, <<"4503", "System", "Size">> }

MetadataRows == {[Id |-> id, UniqueKey |-> key] : id \in 1..MaxColumnID, key \in UniqueKeys}

InitCatalog ==
    /\ pc = "catalog"
    /\ metadata_rows \in SeqsUpTo(MetadataRows, MaxMetadataRows)
    /\ catalog = EmptyDict
    /\ ese_columns = EmptyDict
    /\ tables = AllTables
    /\ db = EmptyDict
    /\ db_wal = FALSE
    /\ gthr_records = EmptyDict
    /\ propstore_records = <<>>
    /\ checkpoints = <<>>
    /\ rows = <<>>
    /\ raised = ""
    /\ different_values = <<>>
    /\ si_different_values = <<>>
    /\ frames = <<>>
    /\ calls = 0
    /\ values = EmptyDict
    /\ yielded = <<>>
    /\ records = <<>>
    /\ warnings = 0
    /\ IdleSearch

\* search.py 183-186
BuildColumns ==
    /\ pc = "catalog"
    /\ catalog' = ps_columns(metadata_rows)
    /\ pc' = "table_record"
    /\ UNCHANGED <<search_vars, tables, metadata_rows, ese_columns>>
    /\ UNCHANGED <<db, db_wal, gthr_records, propstore_records, checkpoints, rows,
                   different_values, si_different_values, frames, calls, values, yielded,
                   records, warnings, raised>>

\* search.py 293-299, for a table whose column names are the keys of the rows
BuildTableRecord ==
    /\ pc = "table_record"
    /\ ese_columns' = tr_columns([i \in 1..Len(metadata_rows) |-> metadata_rows[i].UniqueKey])
    /\ pc' = "catalog_done"
    /\ UNCHANGED <<search_vars, tables, metadata_rows, catalog>>
    /\ UNCHANGED <<db, db_wal, gthr_records, propstore_records, checkpoints, rows,
                   different_values, si_different_values, frames, calls, values, yielded,
                   records, warnings, raised>>

NextCatalog ==
    \/ BuildColumns
    \/ BuildTableRecord

SpecCatalog == InitCatalog /\ [][NextCatalog]_vars

---------------------------------------------------------------------------
(* Claims about searchindex.py: _get_sqlite_records *)

\* the rows emitted for the versions of WorkID w, in output order
VersionRows(w) ==
    SelectSeq(rows, LAMBDA row : row["WorkID"] = PyInt(w) /\ "checkpointindex" \in DOMAIN row)

MaxCheckpointIndex(w) ==
    Max({propstore_records[w][i]["checkpointindex"].b[1] : i \in 1..Len(propstore_records[w])})

\* C1: in the returned rows every WorkID with at least one version has exactly one
\* version with latest = true, that version carries the WorkID's maximum
\* checkpointindex, and all its other versions have latest = false
C1_ExactlyOneLatest ==
    pc = "si_done" =>
        \A w \in DOMAIN propstore_records :
            LET emitted == VersionRows(w) IN
            \E i \in 1..Len(emitted) :
                /\ emitted[i]["latest"] = PyBool(TRUE)
                /\ emitted[i]["checkpointindex"] = PyInt(MaxCheckpointIndex(w))
                /\ \A j \in 1..Len(emitted) : j # i => emitted[j]["latest"] = PyBool(FALSE)

\* the same, for the WorkIDs the merge loop visits (those below the highest id)
C1_ExactlyOneLatestBelowMax ==
    pc = "si_done" =>
        \A w \in DOMAIN propstore_records :
            w < Max(DOMAIN gthr_records \cup DOMAIN propstore_records) =>
                LET emitted == VersionRows(w) IN
                \E i \in 1..Len(emitted) :
                    /\ emitted[i]["latest"] = PyBool(TRUE)
                    /\ emitted[i]["checkpointindex"] = PyInt(MaxCheckpointIndex(w))
                    /\ \A j \in 1..Len(emitted) : j # i => emitted[j]["latest"] = PyBool(FALSE)

\* the value the base table holds for (w, column), None when it holds no such row
BaseHolds(w, column, value) ==
    /\ \E i \in 1..Len(TableRows(db)) :
          TableRows(db)[i][1] = w /\ TableRows(db)[i][2] = column
    /\ \A i \in 1..Len(TableRows(db)) :
          TableRows(db)[i][1] = w /\ TableRows(db)[i][2] = column => TableRows(db)[i][3] = value

\* the claim's scenario: the base holds (w, System_ItemPathDisplay) = foo and the WAL
\* is one checkpoint whose diff is the one triple (w, System_ItemPathDisplay, bar)
C2_Scenario(w) ==
    /\ BaseHolds(w, 1, Foo)
    /\ Len(checkpoints) = 1
    /\ checkpoints[1].index > 0
    /\ checkpoints[1].diff = << <<w, 1, Bar>> >>

\* C2: base (W, A) = v0 and one checkpoint i > 0 with the diff (W, A, v1) give exactly
\* two versions of W in the output, in this order: {checkpointindex 0, A = v0,
\* latest false} and {checkpointindex i, A = v1, latest true}
C2_TwoVersions ==
    \A w \in WorkIDs :
        (pc = "si_done" /\ C2_Scenario(w)) =>
            LET emitted == VersionRows(w) IN
            /\ Len(emitted) = 2
            /\ emitted[1]["checkpointindex"] = PyInt(0)
            /\ emitted[1]["System_ItemPathDisplay"] = Foo
            /\ emitted[1]["latest"] = PyBool(FALSE)
            /\ emitted[2]["checkpointindex"] = PyInt(checkpoints[1].index)
            /\ emitted[2]["System_ItemPathDisplay"] = Bar
            /\ emitted[2]["latest"] = PyBool(TRUE)

\* C9: without a WAL every WorkID of the property store is emitted as exactly one
\* row, with checkpointindex 0 and latest = true
C9_NoWalOneRow ==
    (pc = "si_done" /\ ~db_wal) =>
        \A w \in {TableRows(db)[i][1] : i \in 1..Len(TableRows(db))} :
            LET emitted == SelectSeq(rows, LAMBDA row : row["WorkID"] = PyInt(w)) IN
            /\ Len(emitted) = 1
            /\ Get(emitted[1], "checkpointindex", None) = PyInt(0)
            /\ Get(emitted[1], "latest", None) = PyBool(TRUE)

---------------------------------------------------------------------------
(* Claims about the differencer *)

\* the value tuples of the cells of a page that have data
CellTuples(page) ==
    IF page.kind # "cells" THEN {}
    ELSE {page.cells[i].values : i \in {j \in 1..Len(page.cells) : page.cells[j].has_size}}

\* the pages that hold the cells of a page in another order
PermutedPages(page) ==
    IF page.kind # "cells" THEN {page}
    ELSE {CellPage([i \in 1..Len(page.cells) |-> page.cells[perm[i]]]) :
            perm \in Permutations(1..Len(page.cells))}

PermutedDbs(database) ==
    {d \in [DOMAIN database -> UNION {PermutedPages(database[n]) : n \in DOMAIN database}] :
        \A n \in DOMAIN database : d[n] \in PermutedPages(database[n])}

PermutedFrames(checkpoint_frames) ==
    {f \in [1..Len(checkpoint_frames) ->
                UNION {{[page_number |-> checkpoint_frames[i].page_number, page |-> q] :
                            q \in PermutedPages(checkpoint_frames[i].page)} :
                       i \in 1..Len(checkpoint_frames)}] :
        \A i \in 1..Len(checkpoint_frames) :
            /\ f[i].page_number = checkpoint_frames[i].page_number
            /\ f[i].page \in PermutedPages(checkpoint_frames[i].page)}

PermutationInvariant ==
    \A d \in PermutedDbs(db), f \in PermutedFrames(frames) :
        /\ Range(get_changes_between_db_and_checkpoint(d, f)) = Range(different_values)
        /\ Range(si_get_changes_between_db_and_checkpoint(<<>>, d, f)) = Range(si_different_values)

\* C3: the diff holds, for each frame, exactly the checkpoint-page cell tuples
\* equal to no cell tuple of the base page of that number (a missing or wrong-type
\* base page has none), in both copies of the function, and permuting the cells
\* of a page leaves the set of diff tuples unchanged
C3_SetDifference ==
    pc = "diff_done" =>
        LET expected == UNION {CellTuples(frames[i].page)
                                    \ CellTuples(db_page(db, frames[i].page_number)) :
                               i \in 1..Len(frames)}
        IN  /\ Range(different_values) = expected
            /\ Range(si_different_values) = expected
            /\ PermutationInvariant

\* a frame of two cells one of which is in the base page at another position while
\* the other is reported
C3_Witness ==
    /\ pc = "diff_done"
    /\ \E i \in 1..Len(frames) :
          /\ frames[i].page.kind = "cells"
          /\ Len(frames[i].page.cells) = 2
          /\ frames[i].page.cells[1].has_size
          /\ frames[i].page_number \in DOMAIN db
          /\ db[frames[i].page_number].kind = "cells"
          /\ Len(db[frames[i].page_number].cells) = 2
          /\ db[frames[i].page_number].cells[1] = frames[i].page.cells[2]
          /\ db[frames[i].page_number].cells[1].has_size
          /\ frames[i].page.cells[1].values \in Range(different_values)
          /\ frames[i].page.cells[2].values \notin Range(different_values)

\* the cells of a checkpoint page can be read: the page is there, of the right
\* type, and its cells have data
Readable(page) ==
    /\ page.kind = "cells"
    /\ \A i \in 1..Len(page.cells) : page.cells[i].has_size

\* C15: cells without size are left out on both sides: in the base page they
\* suppress no checkpoint tuple, and in the checkpoint page they never reach the
\* diff, neither as an empty nor as a partial tuple
C15_FreedCellsExcluded ==
    pc = "diff_done" =>
        \A result \in {different_values, si_different_values} :
            /\ \A n \in 1..Len(result) :
                  /\ result[n] # <<>>
                  /\ \E i \in 1..Len(frames) : \E j \in 1..Len(frames[i].page.cells) :
                        /\ frames[i].page.cells[j].has_size
                        /\ frames[i].page.cells[j].values = result[n]
            /\ \A i \in 1..Len(frames) :
                  Readable(frames[i].page) =>
                      \A j \in 1..Len(frames[i].page.cells) :
                          LET tuple == frames[i].page.cells[j].values
                              base == db_page(db, frames[i].page_number)
                          IN  (\A k \in 1..Len(base.cells) :
                                  base.cells[k].has_size => base.cells[k].values # tuple)
                                 => tuple \in Range(result)

\* a checkpoint cell is reported although the base page of its number holds only
\* cells without size, and another frame of the checkpoint holds a cell without size
C15_Witness ==
    /\ pc = "diff_done"
    /\ \E i, j \in 1..Len(frames) :
          /\ Readable(frames[i].page)
          /\ frames[i].page.cells # <<>>
          /\ frames[i].page_number \in DOMAIN db
          /\ db[frames[i].page_number].kind = "cells"
          /\ db[frames[i].page_number].cells # <<>>
          /\ ~db[frames[i].page_number].cells[1].has_size
          /\ frames[i].page.cells[1].values \in Range(different_values)
          /\ frames[j].page.kind = "cells"
          /\ frames[j].page.cells # <<>>
          /\ ~frames[j].page.cells[1].has_size

\* the diff tuples, frame after frame and cell after cell, of the frames that
\* can be read
RECURSIVE ReadableChanges(_)
ReadableChanges(checkpoint_frames) ==
    IF checkpoint_frames = <<>> THEN <<>>
    ELSE LET frame == Head(checkpoint_frames)
             base == CellTuples(db_page(db, frame.page_number))
             Changed(cell) == cell.values \notin base
             changed == IF Readable(frame.page) THEN SelectSeq(frame.page.cells, Changed)
                        ELSE <<>>
         IN  [n \in 1..Len(changed) |-> changed[n].values]
             \o ReadableChanges(Tail(checkpoint_frames))

\* C16: a frame whose checkpoint page is missing or cannot be read contributes
\* no diff and raises nothing, and the diffs of the other frames of the
\* checkpoint are returned
C16_UnreadableFrameSkipped ==
    pc = "diff_done" =>
        /\ raised = ""
        /\ different_values = ReadableChanges(frames)
        /\ si_different_values = ReadableChanges(frames)

\* the first frame of the checkpoint cannot be read and the second contributes
\* a diff
C16_Witness ==
    /\ pc = "diff_done"
    /\ Len(frames) = 2
    /\ ~Readable(frames[1].page)
    /\ Readable(frames[2].page)
    /\ different_values # <<>>
    /\ \E j \in 1..Len(frames[2].page.cells) :
          frames[2].page.cells[j].values = different_values[1]

---------------------------------------------------------------------------
(* Claims about build_record *)

IsActivityItem(vals) == Get(vals, "System_ItemType", None) = Str(<<"ActivityHistoryItem">>)

IsBrowserStore(vals) ==
    Get(vals, "System_Search_Store", None) \in {Str(<<"iehistory">>), Str(<<"winrt">>)}

\* System_ItemUrl is absent, null, empty or not of the shape scheme://{sid}/url
MalformedItemUrl(vals) ==
    LET url == Get(vals, "System_ItemUrl", None)
    IN  \/ url.t = "none"
        \/ url.t = "str" /\ ~RE_URL_match(url.s).ok

\* C4: build_record yields an Activity record, and no record of any other kind,
\* for every snapshot whose System_ItemType is "ActivityHistoryItem"
C4_ActivityAlways ==
    (calls > 0 /\ IsActivityItem(values)) =>
        /\ Len(yielded) = 1
        /\ yielded[1].kind = "activity"

\* no activity item is ever classified as a record of another kind: when
\* build_record does not raise, the one record it yields is an Activity record
C4_ActivityUnlessRaised ==
    (calls > 0 /\ IsActivityItem(values)) =>
        \/ raised # "" /\ yielded = <<>>
        \/ raised = "" /\ Len(yielded) = 1 /\ yielded[1].kind = "activity"

\* C5: for a snapshot that is no activity item, of a browser store, whose item
\* URL is absent or malformed, build_record yields no record, logs exactly one
\* warning and raises nothing, and the batch goes on with the next snapshot
C5_MalformedUrlWarns ==
    [][(~IsActivityItem(values') /\ IsBrowserStore(values') /\ MalformedItemUrl(values')) =>
            /\ yielded' = <<>>
            /\ records' = records
            /\ warnings' = warnings + 1
            /\ raised' = ""
            /\ pc' = "build"]_vars

\* the second snapshot of a batch is a browser-store item with a malformed item
\* URL: it was warned about and the record of the first snapshot is kept
C5_Witness ==
    /\ calls = 2
    /\ ~IsActivityItem(values)
    /\ IsBrowserStore(values)
    /\ "System_ItemUrl" \in DOMAIN values
    /\ values["System_ItemUrl"].s # <<>>
    /\ MalformedItemUrl(values)
    /\ warnings = 1
    /\ Len(records) = 1
    /\ pc = "build"

\* the timestamp property behind each timestamp field of the records
TimestampFields ==
    {<<"activity", "ts_start", "System_ActivityHistory_StartTime">>,
     <<"activity", "ts_end", "System_ActivityHistory_EndTime">>,
     <<"browser", "ts", "System_Link_DateVisited">>,
     <<"file", "ts", "System_Search_GatherTime">>,
     <<"file", "ts_mtime", "System_DateModified">>,
     <<"file", "ts_btime", "System_DateCreated">>,
     <<"file", "ts_atime", "System_DateAccessed">>}

\* the property is absent, a zero-length byte string or an all-zero byte string
NullLike(vals, key) ==
    \/ key \notin DOMAIN vals
    \/ vals[key].t = "bytes" /\ \A i \in 1..Len(vals[key].b) : vals[key].b[i] = 0

\* C7: a timestamp property that is absent, zero-length or all-zero decodes to
\* a null timestamp and never to an error
C7_NullTimestamp ==
    calls > 0 =>
        /\ (\A key \in BytesKeys : NullLike(values, key)) => raised = ""
        /\ \A f \in TimestampFields :
              (Len(yielded) = 1 /\ yielded[1].kind = f[1] /\ NullLike(values, f[3]))
                  => yielded[1].fields[f[2]] = None

---------------------------------------------------------------------------
(* Claims about parse_sqlite *)

\* every (WorkId, ColumnId, Value) written so far: the base rows, then the
\* diffs of the checkpoints in the order they were replayed
RECURSIVE DiffsOf(_)
DiffsOf(cps) == IF cps = <<>> THEN <<>> ELSE Head(cps).diff \o DiffsOf(Tail(cps))

PsWrites == TableRows(db) \o DiffsOf(checkpoints)

\* the decimal strings of the ColumnIDs that are in no metadata row
UnknownColumnKey == (9 :> "9") @@ (12 :> "12")

PsValue(row) == IF Len(row) > 2 THEN row[3] ELSE None

\* C10: a base row or WAL diff triple whose ColumnID is not in the column catalog
\* is kept: the snapshot of its WorkID holds, under the decimal string of the
\* ColumnID, the value of the last such row
C10_UnknownColumnKept ==
    (pc \in {"ps_wal", "ps_done"}) =>
        \A n \in 1..Len(PsWrites) :
            LET row == PsWrites[n] IN
            row[2] \in DOMAIN UnknownColumnKey =>
                LET i == ps_index(propstore_records, row[1])
                    last == CHOOSE m \in n..Len(PsWrites) :
                                /\ PsWrites[m][1] = row[1]
                                /\ PsWrites[m][2] = row[2]
                                /\ \A k \in (m + 1)..Len(PsWrites) :
                                      PsWrites[k][1] # row[1] \/ PsWrites[k][2] # row[2]
                IN  /\ i > 0
                    /\ UnknownColumnKey[row[2]] \in DOMAIN propstore_records[i].values
                    /\ propstore_records[i].values[UnknownColumnKey[row[2]]] = PsValue(PsWrites[last])

\* a base row of the unknown column 9 and a diff triple of the unknown column 12
\* have both been replayed
C10_Witness ==
    /\ pc = "ps_done"
    /\ \E n \in 1..Len(TableRows(db)) : TableRows(db)[n][2] = 9
    /\ \E n \in 1..Len(DiffsOf(checkpoints)) : DiffsOf(checkpoints)[n][2] = 12

---------------------------------------------------------------------------
(* Claims about search *)

UnknownSuffix(database) == suffix(database[1]) \notin {".edb", ".db"}

\* what search() yields and logs for a sequence of databases
RECURSIVE search_all(_, _)
search_all(out, dbs) ==
    IF dbs = <<>> \/ out.raised # "" THEN out
    ELSE LET step == search_database(Head(dbs), target.fs).out
         IN  search_all([yielded |-> out.yielded \o step.yielded,
                         warnings |-> out.warnings + step.warnings,
                         raised |-> step.raised],
                        Tail(dbs))

\* the records and warnings of the query are those of the databases with a known
\* suffix, and one warning more for each database with an unknown suffix
UnknownSuffixOnlyWarns ==
    LET unknown == {d \in databases : UnknownSuffix(d)}
        others == search_all(NothingYielded, iteration(databases \ unknown))
    IN  /\ records = others.yielded
        /\ warnings = others.warnings + Cardinality(unknown)

\* C6: in search(), a discovered database file whose suffix is neither .edb nor
\* .db contributes no record and exactly one warning, and the records of the
\* other discovered files are as if it had not been discovered
C6_UnknownSuffixWarns ==
    (pc \in {"searched", "search_raised"}) => UnknownSuffixOnlyWarns

\* the same for the queries that no exception ended
C6_UnknownSuffixWarnsUnlessRaised ==
    pc = "searched" => UnknownSuffixOnlyWarns

---------------------------------------------------------------------------
(* Claims about the construction of the plugin *)

\* no database file is on the target
NoDatabaseFile == DOMAIN target.fs = {}

\* the plugin was constructed without exception, check_compatible raised
\* UnsupportedPluginError or is about to, and nothing was yielded
UnsupportedNotFailed ==
    /\ pc \in {"constructed", "unsupported"}
    /\ databases = {}
    /\ records = <<>>
    /\ pc = "unsupported" => raised = "UnsupportedPluginError"

\* C11: when no database file can be found on the target, also when the registry
\* key or its DataDirectory value is missing, constructing the plugin does not
\* fail, check_compatible signals UnsupportedPluginError and nothing is yielded
C11_NoDatabaseUnsupported ==
    (NoDatabaseFile /\ pc # "new") => UnsupportedNotFailed

\* the same for the targets whose registry holds the DataDirectory value
C11_NoDatabaseUnsupportedWithRegistry ==
    (NoDatabaseFile /\ target.registry # "" /\ pc # "new") => UnsupportedNotFailed

---------------------------------------------------------------------------
(* Claims about the WAL replay of _get_sqlite_records *)

\* the index of the checkpoint that the step replays
ReplayedIndex == checkpoints'[Len(checkpoints')].index

\* the rows of the replayed diff that name WorkID w and a column of the metadata
ReplayedRows(w) ==
    LET diff == checkpoints'[Len(checkpoints')].diff
        Targets(row) == /\ Len(row) >= 3
                        /\ row[1] = w
                        /\ row[2] \in DOMAIN propstore_metadata(MetadataTable)
    IN  SelectSeq(diff, Targets)

C14_StampsIncrease ==
    (pc \in {"si_wal", "si_raised", "si_done"}) =>
        \A w \in DOMAIN propstore_records :
            \A i \in 1..(Len(propstore_records[w]) - 1) :
                propstore_records[w][i]["checkpointindex"].b[1]
                    < propstore_records[w][i + 1]["checkpointindex"].b[1]

\* checkpoint 2 was replayed before checkpoint 1, both wrote to the same WorkID
\* of the base, and the WorkID has more than one version
C14_Witness ==
    /\ pc = "si_wal"
    /\ Len(checkpoints) = 2
    /\ checkpoints[1].index = 2
    /\ checkpoints[2].index = 1
    /\ \E w \in DOMAIN propstore_records :
          /\ Len(propstore_records[w]) = 2
          /\ propstore_records[w][1]["checkpointindex"] = PyInt(0)
          /\ \A c \in 1..2 : \E j \in 1..Len(checkpoints[c].diff) :
                /\ Len(checkpoints[c].diff[j]) = 3
                /\ checkpoints[c].diff[j][1] = w
                /\ checkpoints[c].diff[j][2] = 1

---------------------------------------------------------------------------
(* Claims about the WAL replay of parse_sqlite *)

\* a file record with this path and checkpoint was yielded
YieldedFile(path, checkpoint) ==
    \E i \in 1..Len(yielded) :
        /\ yielded[i].kind = "file"
        /\ yielded[i].fields["path"] = path
        /\ yielded[i].fields["checkpoint"] = PyInt(checkpoint)

\* the base holds WorkID w alone, with path "foo", and the one checkpoint
\* replayed holds the diff that sets the path of w to "bar"
PsChangedOnce(w) ==
    /\ TableRows(db) = << <<w, 1, Foo>> >>
    /\ Len(checkpoints) = 1
    /\ checkpoints[1].diff = << <<w, 1, Bar>> >>

\* C13: parse_sqlite yields, for a WorkID of the base whose property a
\* checkpoint of index i > 0 changes, a record of the base version (checkpoint 0,
\* old value) and a record of the new version (checkpoint i, new value)
C13_VersionHistory ==
    \A w \in WorkIDs :
        (pc = "ps_done" /\ PsChangedOnce(w)) =>
            /\ YieldedFile(Foo, 0)
            /\ YieldedFile(Bar, checkpoints[1].index)

\* what parse_sqlite yields instead: the one record of the last state
C13_LastStateOnly ==
    \A w \in WorkIDs :
        (pc = "ps_done" /\ PsChangedOnce(w)) =>
            /\ Len(yielded) = 1
            /\ YieldedFile(Bar, checkpoints[1].index)

\* the replay cannot read row[1] of a row of the diff
Unparsable(diff) == \E n \in 1..Len(diff) : Len(diff[n]) < 2

\* the state after the base rows and those checkpoints whose diff can be parsed
RECURSIVE PsReplayParsable(_, _)
PsReplayParsable(recs, cps) ==
    IF cps = <<>> THEN recs
    ELSE PsReplayParsable(
            IF Unparsable(Head(cps).diff) THEN recs
            ELSE ps_wal_rows(recs, Head(cps).index, Head(cps).diff, ps_columns(MetadataTable)).recs,
            Tail(cps))

\* C17: when a checkpoint cannot be parsed during the replay of parse_sqlite,
\* only its diffs are lost: the state is that of the other checkpoints, the
\* replay goes on and records are emitted
C17_UnparsableCheckpointSkipped ==
    (pc \in {"ps_wal", "ps_raised", "ps_done"}
     /\ \E c \in 1..Len(checkpoints) : Unparsable(checkpoints[c].diff)) =>
        /\ raised = ""
        /\ pc # "ps_raised"
        /\ propstore_records =
              PsReplayParsable(ps_base_rows(ps_new_records, TableRows(db), ps_columns(MetadataTable)),
                               checkpoints)

\* a checkpoint whose frame gives no diff, because its page cannot be read or
\* holds nothing new, leaves the state as it is and the replay goes on
C17_EmptyDiffSkipped ==
    [][(pc = "ps_wal" /\ Len(checkpoints') = Len(checkpoints) + 1
        /\ checkpoints'[Len(checkpoints')].diff = <<>>) =>
            /\ propstore_records' = propstore_records
            /\ raised' = ""
            /\ pc' = "ps_wal"]_vars

---------------------------------------------------------------------------
(* Claims about the cardinality of build_record *)

\* the call yielded one record of one of the three kinds and logged nothing, or
\* yielded nothing and logged a warning
OneRecordOrLogged ==
    \/ /\ Len(yielded') = 1
       /\ yielded'[1].kind \in {"activity", "browser", "file"}
       /\ warnings' = warnings
    \/ /\ yielded' = <<>>
       /\ warnings' = warnings + 1

\* C18: build_record yields, for each snapshot, exactly one record of one of the
\* three kinds, or no record after logging when classification or decoding
\* fails, and never raises
C18_OneRecordNeverRaises ==
    [][(pc = "build" /\ calls' = calls + 1) => (raised' = "" /\ OneRecordOrLogged)]_vars

\* the same apart from the calls that an exception leaves, which yield nothing
\* and log nothing
C18_OneRecordUnlessRaised ==
    [][(pc = "build" /\ calls' = calls + 1) =>
          \/ raised' = "" /\ OneRecordOrLogged
          \/ raised' \in {"TypeError", "ValueError"} /\ yielded' = <<>> /\ warnings' = warnings]_vars

---------------------------------------------------------------------------
(* Claims about missing tables *)

\* the SQLite databases of the query whose file lacks the named table
Lacking(name) ==
    {d \in databases : suffix(d[1]) = ".db" /\ name \notin target.fs[d[1]].tables}

\* the records of the query are those of the databases outside the set, when
\* none of these raises on its own
OthersUnaffected(lacking) ==
    LET others == search_all(NothingYielded, iteration(databases \ lacking))
    IN  (lacking # {} /\ others.raised = "") => records = others.yielded

\* C19: in search(), a failure while reading a required table of one database
\* file stops extraction for that file only: the records of every other
\* discovered database file are still yielded, and records already yielded
\* before the failure are not retracted
C19_TableFailureFileLocal ==
    (pc \in {"searched", "search_raised"}) =>
        /\ OthersUnaffected(Lacking("SystemIndex_1_PropertyStore_Metadata"))
        /\ OthersUnaffected(Lacking("SystemIndex_1_PropertyStore"))

\* the part that holds: a file without the property store table is logged and
\* the other files are searched
C19_MissingPropertyStoreFileLocal ==
    (pc \in {"searched", "search_raised"}) =>
        OthersUnaffected(Lacking("SystemIndex_1_PropertyStore")
                            \ Lacking("SystemIndex_1_PropertyStore_Metadata"))

\* the part that holds: the records yielded so far stay yielded, whatever the
\* next database does
C19_NothingRetracted ==
    [][pc = "search" => (Len(records') >= Len(records)
                         /\ SubSeq(records', 1, Len(records)) = records)]_vars

\* C20: if the metadata table SystemIndex_1_PropertyStore_Metadata is absent,
\* parse_sqlite does not abort: it logs a warning and continues in pass-through
\* mode, so that every property is named by its numeric ColumnID and records
\* are still produced
C20_MissingMetadataPassThrough ==
    ("SystemIndex_1_PropertyStore_Metadata" \notin tables /\ pc # "ps_base") =>
        /\ raised # "AttributeError"
        /\ warnings >= 1

\* what the code does instead: reading the rows of the missing table raises,
\* before anything is logged, aggregated or yielded
C20_MissingMetadataRaises ==
    ("SystemIndex_1_PropertyStore_Metadata" \notin tables /\ pc # "ps_base") =>
        /\ pc = "ps_raised"
        /\ raised = "AttributeError"
        /\ warnings = 0
        /\ propstore_records = <<>>
        /\ yielded = <<>>

---------------------------------------------------------------------------
(* Claims about the column catalog *)

\* the last metadata row with the Id
LastRowOf(id) ==
    metadata_rows[Max({i \in 1..Len(metadata_rows) : metadata_rows[i].Id = id})]

MetadataIds == {metadata_rows[i].Id : i \in 1..Len(metadata_rows)}

\* the name is what follows the first "-" of the key, or the key without "-"
FollowsFirstSeparator(parts, name) ==
    IF Len(parts) = 1 THEN name = parts[1]
    ELSE Join(parts, "-") = parts[1] \o "-" \o name

\* the name is what follows the final "-" of the key, or the key without "-"
FollowsFinalSeparator(parts, name) == name = parts[Len(parts)]

\* C21 as stated: the column catalog maps each ColumnID to the substring of its
\* metadata key that follows the final separator "-", in the catalog of
\* parse_sqlite and in the column map of TableRecord
C21_AfterFinalSeparator ==
    pc = "catalog_done" =>
        /\ \A id \in DOMAIN catalog : FollowsFinalSeparator(LastRowOf(id).UniqueKey, catalog[id])
        /\ \A name \in DOMAIN ese_columns : FollowsFinalSeparator(ese_columns[name], name)

\* C21 amended: the column catalog maps each ColumnID to the substring of its
\* metadata key that follows the first separator "-" (a key without separator
\* maps to itself), in the catalog of parse_sqlite and in the column map of
\* TableRecord, also for keys that contain more than one separator
C21_AfterFirstSeparator ==
    pc = "catalog_done" =>
        /\ DOMAIN catalog = MetadataIds
        /\ \A id \in DOMAIN catalog : FollowsFirstSeparator(LastRowOf(id).UniqueKey, catalog[id])
        /\ \A name \in DOMAIN ese_columns : FollowsFirstSeparator(ese_columns[name], name)
        /\ \A i \in 1..Len(metadata_rows) :
              \E name \in DOMAIN ese_columns :
                 FollowsFirstSeparator(metadata_rows[i].UniqueKey, name)

\* both catalogs are built from a key without separator and a key with two
C21_Witness ==
    /\ pc = "catalog_done"
    /\ Cardinality(DOMAIN catalog) = 2
    /\ \E i, j \in 1..Len(metadata_rows) :
          /\ Len(metadata_rows[i].UniqueKey) = 1
          /\ Len(metadata_rows[j].UniqueKey) = 3

---------------------------------------------------------------------------
(* Claims about base aggregation *)

\* the property names of the ColumnIDs of the base rows
PsPropertyName == (1 :> "System_ItemPathDisplay") @@ (9 :> "9")

\* the base table has been aggregated and no checkpoint replayed
PsBaseAggregated == pc = "ps_wal" /\ checkpoints = <<>>

\* C22: base aggregation in parse_sqlite produces exactly one snapshot per
\* distinct WorkID scanned, and for each (WorkID, property) pair the snapshot
\* holds the value of the last row in scan order that targets that pair
C22_OneSnapshotLastRowWins ==
    PsBaseAggregated =>
        LET scanned == TableRows(db) IN
        /\ Len(propstore_records) = Cardinality({scanned[n][1] : n \in 1..Len(scanned)})
        /\ \A n \in 1..Len(scanned) :
              LET same == {m \in 1..Len(scanned) :
                              scanned[m][1] = scanned[n][1] /\ scanned[m][2] = scanned[n][2]}
                  snapshots == {i \in 1..Len(propstore_records) :
                                   propstore_records[i].work_id = scanned[n][1]}
              IN  /\ Cardinality(snapshots) = 1
                  /\ \A i \in snapshots :
                        /\ PsPropertyName[scanned[n][2]] \in DOMAIN propstore_records[i].values
                        /\ propstore_records[i].values[PsPropertyName[scanned[n][2]]]
                              = scanned[Max(same)][3]

\* two rows of the base table gave the same property of the same WorkID
\* different values
C22_Witness ==
    /\ PsBaseAggregated
    /\ Len(propstore_records) = 1
    /\ \E n, m \in 1..Len(TableRows(db)) :
          /\ n < m
          /\ TableRows(db)[n][1] = TableRows(db)[m][1]
          /\ TableRows(db)[n][2] = TableRows(db)[m][2]
          /\ TableRows(db)[n][3] # TableRows(db)[m][3]

---------------------------------------------------------------------------
(* Claims about the merge loop of searchindex.py *)

\* the WorkIDs of the gather table and of the property store
MergedWorkIDs == DOMAIN gthr_records \cup DOMAIN propstore_records

Returned(w) == \E i \in 1..Len(rows) : rows[i]["WorkID"] = PyInt(w)

\* the merge loop has been reached and has returned or raised
MergeOver == pc = "si_done" \/ (pc = "si_raised" /\ raised = "ValueError")

\* C23: every WorkID that occurs in the gather table or in the property store
\* appears in at least one row returned by _get_sqlite_records, including the
\* WorkID with the highest numeric value, and when either table is empty the
\* function returns the rows of the other table instead of failing
C23_EveryWorkIDReturned ==
    MergeOver =>
        /\ pc = "si_done"
        /\ \A w \in MergedWorkIDs : Returned(w)

\* what the code does: with both tables non-empty it returns the WorkIDs below
\* the highest one, and no other
C23_BelowHighestReturned ==
    pc = "si_done" =>
        \A w \in 0..(MaxWorkID + 1) :
            Returned(w) <=> (w \in MergedWorkIDs /\ w < Max(MergedWorkIDs))

\* what the code does with an empty table: max() of no keys raises
C23_EmptyTableRaises ==
    MergeOver =>
        (pc = "si_raised" <=> (DOMAIN gthr_records = {} \/ DOMAIN propstore_records = {}))

---------------------------------------------------------------------------
(* Claims about the class attribute SYSTEM_PATHS *)

\* C24: constructing SearchIndexPlugin leaves the class-level SYSTEM_PATHS list
\* unchanged, so that the paths probed for a target depend only on that
\* target's own registry DataDirectory and never on earlier constructions
C24_SystemPathsUnchanged == SYSTEM_PATHS = DefaultSystemPaths

\* what the code does: every construction that reads the registry value appends
\* the two paths below it to the list of the class, which keeps what earlier
\* constructions appended
C24_SystemPathsGrow ==
    [][SYSTEM_PATHS' # SYSTEM_PATHS =>
          /\ pc = "new"
          /\ target.registry # ""
          /\ SYSTEM_PATHS' = SYSTEM_PATHS
                \o << Path(target.registry \o "/Applications/Windows", "Windows", ".edb"),
                      Path(target.registry \o "/Applications/Windows", "Windows", ".db") >>]_vars

---------------------------------------------------------------------------
(* Claims about replaying a checkpoint twice *)

\* the checkpoint replayed last
LastCheckpoint == checkpoints[Len(checkpoints)]

\* C25: WAL replay is idempotent per checkpoint: applying the diffs of the same
\* checkpoint a second time immediately after the first application leaves
\* every WorkID's stored state unchanged (same number of versions, same
\* checkpoint stamps, same property values), in _get_sqlite_records
C25_ReplayIdempotent ==
    (pc \in {"si_wal", "si_raised", "si_done"} /\ checkpoints # <<>>) =>
        LET again == si_wal_rows(propstore_records, LastCheckpoint.index, LastCheckpoint.diff,
                                 propstore_metadata(MetadataTable))
        IN  /\ again.recs = propstore_records
            /\ pc = "si_wal" => again.raised = ""

\* the checkpoint replayed last appended a version to a WorkID of the base and
\* created a WorkID
C25_Witness ==
    /\ pc = "si_wal"
    /\ checkpoints # <<>>
    /\ \E w, v \in DOMAIN propstore_records :
          /\ Len(propstore_records[w]) = 2
          /\ propstore_records[w][2]["checkpointindex"] = PyInt(LastCheckpoint.index)
          /\ Len(propstore_records[v]) = 1
          /\ propstore_records[v][1]["checkpointindex"] = PyInt(LastCheckpoint.index)
          /\ \E i, j \in 1..Len(LastCheckpoint.diff) :
                LastCheckpoint.diff[i][1] = w /\ LastCheckpoint.diff[j][1] = v

\* the same in parse_sqlite, where a snapshot is overwritten in place
C25_PsReplayIdempotent ==
    (pc \in {"ps_wal", "ps_raised", "ps_done"} /\ checkpoints # <<>>) =>
        LET again == ps_wal_rows(propstore_records, LastCheckpoint.index, LastCheckpoint.diff,
                                 ps_columns(MetadataTable))
        IN  /\ again.recs = propstore_records
            /\ pc # "ps_raised" => again.raised = ""

====
